---- MODULE Spec2Model ----
(***************************************************************************)
(* Function-wrapper utilities of hh-toolkit-utils: rateLimit, throttle,     *)
(* debounce, once and memoize.                                             *)
(* One event-loop task is one action: a wrapper call, a timer callback, or *)
(* the settlement of an awaited promise together with the continuation it  *)
(* resumes.  Time is discrete; a timer never fires before it is due and    *)
(* may fire late.  A value returned synchronously by the wrapped function  *)
(* is an awaited promise that settles in the instant it was created.       *)
(***************************************************************************)
EXTENDS Integers, Sequences, FiniteSets, TLC

\* ------------------------------------------------------------- bounds
MaxCalls == 3        \* operations (calls, cancels) made on one wrapper
MaxDelay == 2        \* minDelay and wait are drawn from 0..MaxDelay
MaxRetries == 2      \* retries is drawn from -2..MaxRetries
MaxSlack == 1        \* longest duration of one asynchronous invocation, the
                     \* longest a timer fires after it is due, and the longest
                     \* an idle wrapper waits for its next call

\* Two distinguishable argument lists.
Args == {"a", "b"}

\* JavaScript values, by type and printed form, and the argument lists built
\* from them for the wrappers whose behaviour depends on the arguments.
JsNumber(v) == [t |-> "number", v |-> v]
JsString(v) == [t |-> "string", v |-> v]
JsNull == [t |-> "null", v |-> "null"]
JsUndefined == [t |-> "undefined", v |-> "undefined"]
ArgLists ==
    {<<JsNumber("1")>>, <<JsString("1")>>, <<JsNull>>, <<JsUndefined>>,
     <<JsNumber("1"), JsString("1")>>, <<JsString("1"), JsNumber("1")>>}

VARIABLES
    now,          \* the clock read by Date.now()
    \* ---- throttle wrapper
    wait,         \* parameter wait
    timeout,      \* let timeout: the handle of the scheduled timer, or null
    lastRan,      \* let lastRan: a time, or null
    thTimers,     \* the timers scheduled with setTimeout and not yet fired or cleared
    \* ---- throttle observations (read by the properties only)
    thLog,        \* the wrapper calls, in order
    thInvoked,    \* the invocations of func, in order
    thWindow,     \* arguments of the calls deferred or dropped since the latest invocation
    thCancels,    \* number of cancel() calls
    \* ---- rateLimit wrapper
    minDelay,     \* parameter minDelay
    queue,        \* queue: the requests not yet dequeued
    processing,   \* let processing
    rlRunning,    \* processQueue continuations suspended at `await func(...)`
    rlTimers,     \* processQueue continuations suspended at the cooldown timer
    \* ---- rateLimit observations (read by the properties only)
    rlCalls,      \* number of calls submitted; call ids are 1..rlCalls
    rlArgs,       \* the argument list of every call not yet settled
    rlInvoked,    \* the invocations of func, in order
    rlSettled,    \* the settlements of the calls' promises, in order
    rlLastInv,    \* the latest invocation: the arguments func received
    rlLastSet,    \* the latest settlement: what func produced, what the promise got
    rlSinceEnd,   \* time since the latest completed invocation ended (-1: none yet)
    rlBurst,      \* start times of the current back-to-back run of invocations
    \* ---- debounce wrapper
    dbWait,       \* parameter wait
    dbTimeout,    \* let timeout: the handle of the scheduled timer, or null
    dbTimers,     \* the timers scheduled with setTimeout and not yet fired or cleared
    \* ---- debounce observations (read by the properties only)
    dbLog,        \* the wrapper calls, in order
    dbInvoked,    \* the invocations of func, in order
    dbCancels,    \* number of cancel() calls
    dbBarrier,    \* number of wrapper calls made before the latest cancel()
    dbSince,      \* time since the latest wrapper call
    \* ---- once wrapper
    called,       \* let called
    result,       \* let result (undefined until assigned)
    \* ---- once observations (read by the properties only)
    onLog,        \* the wrapper calls, in order: arguments and what the call got
    onInvoked,    \* the invocations of func, in order
    \* ---- memoize wrapper
    resolver,     \* parameter resolver: "none" when omitted
    cache,        \* const cache: the Map from key to result
    \* ---- memoize observations (read by the properties only)
    meLog,        \* the wrapper calls, in order
    meInvoked,    \* the invocations of func, in order
    meMutations,  \* number of changes made to the cache through memoized.cache
    \* ---- one call of retry
    reRetries,    \* parameter retries
    reDelayMs,    \* parameter delayMs
    rePc,         \* where the async function is: "idle" (not yet called),
                  \* "func" (at await func()), "delay" (at the awaited timer), "done"
    reI,          \* let i
    reLastError,  \* let lastError (0: unassigned); the error of attempt k is k
    reTimer,      \* the pending delay timer: the delay it was set with, the time left
    rePromise,    \* the promise retry returned
    \* ---- retry observations (read by the properties only)
    reLog,        \* the attempts (calls of func), in order
    reAge,        \* time since the attempt in flight started
    reSince,      \* time since the latest attempt ended
    \* ---- one call of retryImport (lazy-load.ts)
    riRetries,    \* the parameter retries
    riDelayMs,    \* the parameter delayMs
    riPc,         \* "idle" (not called yet), "import" (importFn's promise is
                  \* pending), "delay" (the timer is pending), "done"
    riN,          \* the n of the latest attempt(n)
    riTimer,      \* the pending timer: the delay it was set with, the time left
    riPromise,    \* the promise retryImport returned
    \* ---- retryImport observations (read by the properties only)
    riLog,        \* the calls of importFn, in order
    riAge,        \* time since the import in flight started
    riSince,      \* time since the latest import failed
    \* ---- two wrappers of each kind, side by side
    isoDbTimeout, \* debounce: let timeout, per closure
    isoThTimeout, \* throttle: let timeout, per closure
    isoLastRan,   \* throttle: let lastRan, per closure
    isoCache,     \* memoize: const cache, per closure
    isoCalled,    \* once: let called, per closure
    isoResult,    \* once: let result, per closure
    isoQueue,     \* rateLimit: const queue, per closure
    isoProcessing,\* rateLimit: let processing, per closure
    isoTimers,    \* the timers pending in the runtime, each with the wrapper
                  \* whose callback it holds
    isoRunning,   \* the promises of func that rateLimit wrappers await
    isoHandles,   \* the timer handles issued so far
    isoNow,       \* the clock read by Date.now()
    isoOps,       \* the wrapper calls and cancels made so far
    \* ---- observation (read by the properties only)
    isoActor      \* the wrapper the latest task belonged to

rlVars == <<minDelay, queue, processing, rlRunning, rlTimers, rlCalls, rlArgs,
            rlInvoked, rlSettled, rlLastInv, rlLastSet, rlSinceEnd, rlBurst>>
thVars == <<now, wait, timeout, lastRan, thTimers, thLog, thInvoked, thWindow,
            thCancels>>
dbVars == <<dbWait, dbTimeout, dbTimers, dbLog, dbInvoked, dbCancels, dbBarrier,
            dbSince>>
onVars == <<called, result, onLog, onInvoked>>
meVars == <<resolver, cache, meLog, meInvoked, meMutations>>
reVars == <<reRetries, reDelayMs, rePc, reI, reLastError, reTimer, rePromise,
            reLog, reAge, reSince>>
riVars == <<riRetries, riDelayMs, riPc, riN, riTimer, riPromise, riLog, riAge,
            riSince>>
isoVars == <<isoDbTimeout, isoThTimeout, isoLastRan, isoCache, isoCalled,
             isoResult, isoQueue, isoProcessing, isoTimers, isoRunning,
             isoHandles, isoNow, isoOps, isoActor>>
vars == <<thVars, rlVars, dbVars, onVars, meVars, reVars, riVars, isoVars>>

\* ------------------------------------------------------------- the wrapped function
\* func is opaque: a test double whose value and error both identify the
\* arguments it was invoked with; whether it fails is chosen by the environment.
FuncOutcome(args, ok) ==
    IF ok THEN [kind |-> "value", v |-> args] ELSE [kind |-> "error", v |-> args]

\* ------------------------------------------------------------- rateLimit
\* rateLimit reads no clock, so its timers are kept by the time left until
\* they are due (negative: overdue) and its invocations by their age.
\*
\* A burst is tracked from an invocation started by a call to an idle wrapper,
\* through the invocations started by the cooldown timers that follow, for as
\* long as every invocation ends in the instant it starts and every timer
\* fires in the instant it is due.  starts: the start times, counted from the
\* first; at: the time since the first; together: every call of the burst
\* was submitted in the instant the burst began.
NoBurst == [starts |-> <<>>, at |-> 0, together |-> FALSE]
None == [id |-> 0]

RLInit ==
    /\ minDelay \in 0..MaxDelay
    /\ queue = <<>>
    /\ processing = FALSE
    /\ rlRunning = {}
    /\ rlTimers = {}
    /\ rlCalls = 0
    /\ rlArgs = <<>>
    /\ rlInvoked = <<>>
    /\ rlSettled = <<>>
    /\ rlLastInv = None
    /\ rlLastSet = None
    /\ rlSinceEnd = -1
    /\ rlBurst = NoBurst

\* queue.push({args, resolve, reject})
Enqueue(q, req) == Append(q, req)

\* Faulty variant of Dequeue: queue.pop() (takes the newest request).
DequeueLast(q) == [req |-> q[Len(q)], rest |-> SubSeq(q, 1, Len(q) - 1)]

\* queue.shift()
Dequeue(q) == [req |-> Head(q), rest |-> Tail(q)]

\* Faulty variant of MayStart: the processing flag is not consulted.
MayStartNoFlag(p, q) == Len(q) > 0

\* if (processing || queue.length === 0) return;
MayStart(p, q) == ~p /\ Len(q) > 0

\* func(...args): the arguments func is invoked with for request req
InvokeArgs(req) == req.args

\* Faulty variants of CooldownDelay: no cooldown; a cooldown one unit too long.
CooldownNone(d) == 0
CooldownOffByOne(d) == d + 1

\* setTimeout(r, minDelay): the delay of the cooldown timer
CooldownDelay(d) == d

\* try { resolve(await func(...)) } catch (error) { reject(error) }
SettleWith(out) ==
    IF out.kind = "value" THEN [state |-> "fulfilled", v |-> out.v]
                          ELSE [state |-> "rejected", v |-> out.v]

\* Observation of a settlement of call id, whose invocation produced out.
Settlement(id, out, am) ==
    [id |-> id, out |-> out, res |-> SettleWith(out),
     own |-> IF id \in DOMAIN am THEN am[id] ELSE "none"]
Remember(am, id, a) == [i \in DOMAIN am \cup {id} |-> IF i = id THEN a ELSE am[i]]
Forget(am, id) == [i \in DOMAIN am \ {id} |-> am[i]]

\* processQueue(), run on queue q, flag p and pending timers ts up to its
\* first suspension (am: the argument lists remembered for the properties).
\* syncThrow: func throws before returning a promise, so the catch block and
\* the cooldown timer follow in the same task.
\* via: "call" when run by the wrapper, "timer" when run after the cooldown;
\* punctual: that timer fired in the instant it was due.
ProcessQueue(q, p, ts, am, syncThrow, via, punctual) ==
    IF ~MayStart(p, q)
    THEN /\ queue' = q
         /\ processing' = p
         /\ rlTimers' = ts
         /\ rlArgs' = am
         /\ UNCHANGED <<rlRunning, rlInvoked, rlSettled, rlLastInv, rlLastSet,
                        rlSinceEnd, rlBurst>>
    ELSE LET d == Dequeue(q)
             req == d.req
             args == InvokeArgs(req)
         IN /\ processing' = TRUE
            /\ queue' = d.rest
            /\ rlInvoked' = Append(rlInvoked,
                  [id |-> req.id, busy |-> Cardinality(rlRunning)])
            /\ rlLastInv' = [id |-> req.id, args |-> args]
            /\ rlBurst' =
                  IF via = "call"
                  THEN [starts |-> <<0>>, at |-> 0, together |-> TRUE]
                  ELSE IF rlBurst.starts # <<>> /\ punctual
                  THEN [rlBurst EXCEPT
                          !.starts = Append(@, rlBurst.at),
                          !.together = @ /\ req.together]
                  ELSE NoBurst
            /\ IF syncThrow
               THEN /\ rlSettled' = Append(rlSettled,
                          [id |-> req.id,
                           state |-> SettleWith(FuncOutcome(args, FALSE)).state])
                    /\ rlLastSet' = Settlement(req.id, FuncOutcome(args, FALSE), am)
                    /\ rlArgs' = Forget(am, req.id)
                    /\ rlSinceEnd' = 0
                    /\ rlTimers' = ts \cup {[id |-> req.id,
                                             left |-> CooldownDelay(minDelay)]}
                    /\ rlRunning' = rlRunning
               ELSE /\ rlRunning' = rlRunning \cup {[id |-> req.id,
                                                     args |-> args,
                                                     age |-> 0]}
                    /\ rlTimers' = ts
                    /\ rlArgs' = am
                    /\ UNCHANGED <<rlSettled, rlLastSet, rlSinceEnd>>

\* The returned wrapper: new Promise(... queue.push(...); processQueue() ...)
RLCall(a, syncThrow) ==
    /\ rlCalls < MaxCalls
    /\ rlCalls' = rlCalls + 1
    /\ ProcessQueue(Enqueue(queue,
                       [id |-> rlCalls + 1, args |-> a,
                        together |-> rlBurst.starts # <<>> /\ rlBurst.at = 0]),
                    processing, rlTimers, Remember(rlArgs, rlCalls + 1, a),
                    syncThrow, "call", TRUE)
    /\ UNCHANGED minDelay

\* Faulty variant of RLFinish: the cooldown and the next drain sit inside the try
\* block, so a rejection leaves processing set and starts no timer.
RLFinishStallsOnError(r, ok) ==
    /\ r \in rlRunning
    /\ rlRunning' = rlRunning \ {r}
    /\ rlSettled' = Append(rlSettled,
          [id |-> r.id, state |-> SettleWith(FuncOutcome(r.args, ok)).state])
    /\ rlLastSet' = Settlement(r.id, FuncOutcome(r.args, ok), rlArgs)
    /\ rlArgs' = Forget(rlArgs, r.id)
    /\ rlSinceEnd' = 0
    /\ rlBurst' = IF r.age = 0 THEN rlBurst ELSE NoBurst
    /\ rlTimers' = IF ok
                   THEN rlTimers \cup {[id |-> r.id,
                                        left |-> CooldownDelay(minDelay)]}
                   ELSE rlTimers
    /\ UNCHANGED <<minDelay, queue, processing, rlCalls, rlInvoked, rlLastInv>>

\* Faulty variant of RLFinish: processing = false before the cooldown instead
\* of after it.
RLFinishResetsEarly(r, ok) ==
    /\ r \in rlRunning
    /\ rlRunning' = rlRunning \ {r}
    /\ rlSettled' = Append(rlSettled,
          [id |-> r.id, state |-> SettleWith(FuncOutcome(r.args, ok)).state])
    /\ rlLastSet' = Settlement(r.id, FuncOutcome(r.args, ok), rlArgs)
    /\ rlArgs' = Forget(rlArgs, r.id)
    /\ rlSinceEnd' = 0
    /\ rlBurst' = IF r.age = 0 THEN rlBurst ELSE NoBurst
    /\ rlTimers' = rlTimers \cup {[id |-> r.id, left |-> CooldownDelay(minDelay)]}
    /\ processing' = FALSE
    /\ UNCHANGED <<minDelay, queue, rlCalls, rlInvoked, rlLastInv>>

\* The promise returned by func settles; the continuation settles the call's
\* promise (resolve or reject) and starts the cooldown timer.
RLFinish(r, ok) ==
    /\ r \in rlRunning
    /\ rlRunning' = rlRunning \ {r}
    /\ rlSettled' = Append(rlSettled,
          [id |-> r.id, state |-> SettleWith(FuncOutcome(r.args, ok)).state])
    /\ rlLastSet' = Settlement(r.id, FuncOutcome(r.args, ok), rlArgs)
    /\ rlArgs' = Forget(rlArgs, r.id)
    /\ rlSinceEnd' = 0
    /\ rlBurst' = IF r.age = 0 THEN rlBurst ELSE NoBurst
    /\ rlTimers' = rlTimers \cup {[id |-> r.id, left |-> CooldownDelay(minDelay)]}
    /\ UNCHANGED <<minDelay, queue, processing, rlCalls, rlInvoked, rlLastInv>>

\* Faulty variant of RLTimerFire: processing = false, without the processQueue() call.
RLTimerFireNoDrain(tm, syncThrow) ==
    /\ tm \in rlTimers
    /\ tm.left <= 0
    /\ rlTimers' = rlTimers \ {tm}
    /\ processing' = FALSE
    /\ UNCHANGED <<minDelay, queue, rlRunning, rlCalls, rlArgs, rlInvoked,
                   rlSettled, rlLastInv, rlLastSet, rlSinceEnd, rlBurst>>

\* The cooldown timer fires: processing = false; processQueue();
RLTimerFire(tm, syncThrow) ==
    /\ tm \in rlTimers
    /\ tm.left <= 0
    /\ ProcessQueue(queue, FALSE, rlTimers \ {tm}, rlArgs, syncThrow, "timer",
                    tm.left = 0)
    /\ UNCHANGED <<minDelay, rlCalls>>

RLIdle == rlRunning = {} /\ rlTimers = {}

\* One unit of time passes.  The clock starts with the first call; the
\* wrapped function, the timers and the next call to an idle wrapper hold
\* the event loop back by at most MaxSlack each.
RLTick ==
    /\ rlCalls > 0
    /\ RLIdle => rlSinceEnd < minDelay + MaxSlack
    /\ \A r \in rlRunning : r.age < MaxSlack
    /\ \A tm \in rlTimers : tm.left > -MaxSlack
    /\ rlRunning' = {[r EXCEPT !.age = @ + 1] : r \in rlRunning}
    /\ rlTimers' = {[tm EXCEPT !.left = @ - 1] : tm \in rlTimers}
    /\ rlSinceEnd' = IF rlSinceEnd < 0 THEN rlSinceEnd ELSE rlSinceEnd + 1
    /\ rlBurst' = IF rlBurst.starts = <<>> THEN rlBurst
                  ELSE [rlBurst EXCEPT !.at = @ + 1]
    /\ UNCHANGED <<minDelay, queue, processing, rlCalls, rlArgs, rlInvoked,
                   rlSettled, rlLastInv, rlLastSet>>


\* ------------------------------------------------------------- throttle
Null == 0            \* timeout === null (timer handles are positive)
NoRun == -1          \* lastRan === null

\* The clock of a throttle run stops here; a timer still pending then fires
\* at any time up to it, so timers fire late by up to MaxSlack and more.
ThHorizon == MaxDelay + MaxSlack + 1

ThInit ==
    /\ now = 0
    /\ wait \in 0..MaxDelay
    /\ timeout = Null
    /\ lastRan = NoRun
    /\ thTimers = {}
    /\ thLog = <<>>
    /\ thInvoked = <<>>
    /\ thWindow = <<>>
    /\ thCancels = 0

\* Faulty variant of Leading: a strict comparison, now - lastRan > wait.
LeadingStrict(lr, t, w) == lr = NoRun \/ t - lr > w

\* if (lastRan === null || now - lastRan >= wait)
Leading(lr, t, w) == lr = NoRun \/ t - lr >= w

\* Faulty variant of Remaining: the timer is set for the whole of wait.
RemainingWhole(lr, t, w) == w

\* wait - (now - lastRan)
Remaining(lr, t, w) == w - (t - lr)

\* setTimeout returns a handle not in use before.
FreshHandle == 1 + Len(thLog)

\* throttled(...args)
ThCall(a) ==
    /\ Len(thLog) + thCancels < MaxCalls
    /\ IF Leading(lastRan, now, wait)
       THEN /\ thInvoked' = Append(thInvoked,
                  [t |-> now, args |-> a, edge |-> "leading", due |-> now,
                   recent |-> a])
            /\ lastRan' = now
            /\ thLog' = Append(thLog, [t |-> now, args |-> a, path |-> "leading"])
            /\ thWindow' = <<>>
            /\ UNCHANGED <<timeout, thTimers>>
       ELSE IF timeout = Null
       THEN /\ thTimers' = thTimers \cup
                  {[id |-> FreshHandle, args |-> a,
                    due |-> now + Remaining(lastRan, now, wait)]}
            /\ timeout' = FreshHandle
            /\ thLog' = Append(thLog, [t |-> now, args |-> a, path |-> "scheduled"])
            /\ thWindow' = Append(thWindow, a)
            /\ UNCHANGED <<lastRan, thInvoked>>
       ELSE /\ thLog' = Append(thLog, [t |-> now, args |-> a, path |-> "dropped"])
            /\ thWindow' = Append(thWindow, a)
            /\ UNCHANGED <<timeout, lastRan, thTimers, thInvoked>>
    /\ UNCHANGED <<now, wait, thCancels>>

\* The timer callback: func(...args); lastRan = Date.now(); timeout = null;
ThTimerFire(tm) ==
    /\ tm \in thTimers
    /\ now >= tm.due
    /\ thTimers' = thTimers \ {tm}
    /\ thInvoked' = Append(thInvoked,
          [t |-> now, args |-> tm.args, edge |-> "trailing", due |-> tm.due,
           recent |-> IF thWindow = <<>> THEN tm.args
                      ELSE thWindow[Len(thWindow)]])
    /\ lastRan' = now
    /\ timeout' = Null
    /\ thWindow' = <<>>
    /\ UNCHANGED <<now, wait, thLog, thCancels>>

\* Faulty variant of ThCancel: the timer is cleared, lastRan is kept.
ThCancelKeepsLastRan ==
    /\ Len(thLog) + thCancels < MaxCalls
    /\ IF timeout # Null
       THEN /\ thTimers' = {tm \in thTimers : tm.id # timeout}
            /\ timeout' = Null
       ELSE UNCHANGED <<timeout, thTimers>>
    /\ thCancels' = thCancels + 1
    /\ thWindow' = <<>>
    /\ UNCHANGED <<now, wait, lastRan, thLog, thInvoked>>

\* throttled.cancel()
ThCancel ==
    /\ Len(thLog) + thCancels < MaxCalls
    /\ IF timeout # Null
       THEN /\ thTimers' = {tm \in thTimers : tm.id # timeout}
            /\ timeout' = Null
       ELSE UNCHANGED <<timeout, thTimers>>
    /\ lastRan' = NoRun
    /\ thCancels' = thCancels + 1
    /\ thWindow' = <<>>
    /\ UNCHANGED <<now, wait, thLog, thInvoked>>

\* One unit of time passes.
ThTick ==
    /\ now < ThHorizon
    /\ now' = now + 1
    /\ UNCHANGED <<wait, timeout, lastRan, thTimers, thLog, thInvoked, thWindow,
                   thCancels>>

\* ------------------------------------------------------------- debounce
\* debounce reads no clock: a timer is kept by the time left until it is due
\* (negative: overdue).  The handle setTimeout returns for the timer of the
\* n-th wrapper call is n.
DbInit ==
    /\ dbWait \in 0..MaxDelay
    /\ dbTimeout = Null
    /\ dbTimers = {}
    /\ dbLog = <<>>
    /\ dbInvoked = <<>>
    /\ dbCancels = 0
    /\ dbBarrier = 0
    /\ dbSince = 0

\* clearTimeout(h): clearing a handle whose timer has fired or was cleared
\* does nothing.
ClearTimeout(ts, h) == {tm \in ts : tm.id # h}

\* debounced(...args), run on the timers ts and the handle to; h: the handle
\* setTimeout returns.
Debounced(ts, to, a, h) ==
    [timers |-> (IF to # Null THEN ClearTimeout(ts, to) ELSE ts)
                    \cup {[id |-> h, args |-> a, left |-> dbWait]},
     timeout |-> h]

\* Faulty variant of DebounceCancel: the timer is cleared, the handle is kept.
DebounceCancelKeepsHandle(ts, to) ==
    IF to # Null THEN [timers |-> ClearTimeout(ts, to), timeout |-> to]
                 ELSE [timers |-> ts, timeout |-> to]

\* debounced.cancel(), run on the timers ts and the handle to
DebounceCancel(ts, to) ==
    IF to # Null THEN [timers |-> ClearTimeout(ts, to), timeout |-> Null]
                 ELSE [timers |-> ts, timeout |-> to]

DbOps == Len(dbLog) + dbCancels

\* A wrapper call from outside the wrapped function.
DbCall(a) ==
    /\ DbOps < MaxCalls
    /\ LET d == Debounced(dbTimers, dbTimeout, a, Len(dbLog) + 1)
       IN /\ dbTimers' = d.timers
          /\ dbTimeout' = d.timeout
    /\ dbLog' = Append(dbLog,
          [args |-> a, close |-> Len(dbLog) > 0 /\ dbSince < dbWait,
           inner |-> FALSE])
    /\ dbSince' = 0
    /\ UNCHANGED <<dbWait, dbInvoked, dbCancels, dbBarrier>>

\* The timer callback: func(...args); timeout = null;
\* re: "none", or the arguments with which func calls the wrapper again from
\* inside this invocation.
DbTimerFire(tm, re) ==
    /\ tm \in dbTimers
    /\ tm.left <= 0
    /\ dbInvoked' = Append(dbInvoked,
          [call |-> tm.id, args |-> tm.args, late |-> -tm.left,
           barrier |-> dbBarrier, calls |-> Len(dbLog)])
    /\ IF re = "none"
       THEN /\ dbTimers' = dbTimers \ {tm}
            /\ UNCHANGED <<dbLog, dbSince>>
       ELSE /\ DbOps < MaxCalls
            /\ dbTimers' =
                  Debounced(dbTimers \ {tm}, dbTimeout, re, Len(dbLog) + 1).timers
            /\ dbLog' = Append(dbLog,
                  [args |-> re, close |-> dbSince < dbWait, inner |-> TRUE])
            /\ dbSince' = 0
    /\ dbTimeout' = Null
    /\ UNCHANGED <<dbWait, dbCancels, dbBarrier>>

\* A cancel() call from outside the wrapped function.
DbCancel ==
    /\ DbOps < MaxCalls
    /\ LET c == DebounceCancel(dbTimers, dbTimeout)
       IN /\ dbTimers' = c.timers
          /\ dbTimeout' = c.timeout
    /\ dbCancels' = dbCancels + 1
    /\ dbBarrier' = Len(dbLog)
    /\ UNCHANGED <<dbWait, dbLog, dbInvoked, dbSince>>

\* One unit of time passes.  The clock starts with the first call; a timer
\* fires at most MaxSlack after it is due, and an idle wrapper waits at most
\* that long beyond wait for its next call.
DbTick ==
    /\ Len(dbLog) > 0
    /\ \A tm \in dbTimers : tm.left > -MaxSlack
    /\ dbTimers = {} => dbSince < dbWait + MaxSlack
    /\ dbTimers' = {[tm EXCEPT !.left = @ - 1] : tm \in dbTimers}
    /\ dbSince' = dbSince + 1
    /\ UNCHANGED <<dbWait, dbTimeout, dbLog, dbInvoked, dbCancels, dbBarrier>>

\* ------------------------------------------------------------- once
\* What a call of a synchronous wrapped function gives its caller: a value
\* that identifies the arguments func computed it from, undefined, or an error.
ValueOf(args) == [undef |-> FALSE, of |-> args]
Undefined == [undef |-> TRUE, of |-> <<>>]
Returned(v) == [kind |-> "return", v |-> v]
Threw(args) == [kind |-> "throw", v |-> ValueOf(args)]

\* func(...args): returns a value (how = "value"), returns undefined, or throws.
Func(args, how) ==
    CASE how = "value" -> Returned(ValueOf(args))
      [] how = "undefined" -> Returned(Undefined)
      [] how = "throw" -> Threw(args)

OnceInit ==
    /\ called = FALSE
    /\ result = Undefined
    /\ onLog = <<>>
    /\ onInvoked = <<>>

\* Faulty variant of MustInvoke: the called flag is not consulted.
MustInvokeAlways(c) == TRUE

\* if (!called)
MustInvoke(c) == ~c

\* Faulty variant of MarkCalled: called = true after func has returned.
MarkCalledOnReturn(out) == out.kind = "return"

\* called = true; before func(...args), so whatever func does
MarkCalled(out) == TRUE

\* The returned wrapper, called with args; how: what func does if invoked.
OnceCall(a, how) ==
    /\ Len(onLog) < MaxCalls
    /\ IF MustInvoke(called)
       THEN LET out == Func(a, how)
            IN /\ called' = MarkCalled(out)
               /\ onInvoked' = Append(onInvoked, [args |-> a, out |-> out])
               /\ result' = IF out.kind = "return" THEN out.v ELSE result
               /\ onLog' = Append(onLog,
                     [args |-> a,
                      got |-> IF out.kind = "return" THEN Returned(out.v) ELSE out])
       ELSE /\ onLog' = Append(onLog, [args |-> a, got |-> Returned(result)])
            /\ UNCHANGED <<called, result, onInvoked>>

\* ------------------------------------------------------------- memoize
\* JSON.stringify of one element of an array: a number by its digits (NaN as
\* null), a string in double quotes, null and undefined as null.
JsonElement(x) ==
    CASE x.t = "number" -> (IF x.v = "NaN" THEN "null" ELSE x.v)
      [] x.t = "string" -> "\"" \o x.v \o "\""
      [] x.t = "null" -> "null"
      [] x.t = "undefined" -> "null"

RECURSIVE JsonElements(_)
JsonElements(args) ==
    IF Len(args) = 0 THEN ""
    ELSE IF Len(args) = 1 THEN JsonElement(args[1])
    ELSE JsonElement(args[1]) \o "," \o JsonElements(Tail(args))

\* JSON.stringify(args)
JsonStringify(args) == "[" \o JsonElements(args) \o "]"

\* resolver(...args) for the resolver passed to the wrapper under study:
\* (x) => String(x), the printed form of the first argument.
Resolve(args) == args[1].v

\* const key = resolver ? resolver(...args) : JSON.stringify(args);
MemoKey(res, args) == IF res # "none" THEN Resolve(args) ELSE JsonStringify(args)

MemoInit ==
    /\ resolver \in {"none", "String"}
    /\ cache = <<>>
    /\ meLog = <<>>
    /\ meInvoked = <<>>
    /\ meMutations = 0

\* Faulty variant of CacheHas: cache.get(key) !== undefined.
CacheHasDefined(c, key) == key \in DOMAIN c /\ ~c[key].undef

\* cache.has(key)
CacheHas(c, key) == key \in DOMAIN c

\* Faulty variant of CacheSet: a cache of one entry, storing evicts the rest.
CacheSetEvicting(c, key, r) == [k \in {key} |-> r]

\* cache.set(key, result)
CacheSet(c, key, r) == [k \in DOMAIN c \cup {key} |-> IF k = key THEN r ELSE c[k]]

\* Faulty variant of StoreResult: cache.set in a finally block, so a throw
\* stores undefined.
StoreResultFinally(c, key, out) ==
    IF out.kind = "return" THEN CacheSet(c, key, out.v)
                           ELSE CacheSet(c, key, Undefined)

\* const result = func(...args); cache.set(key, result);  A throw of func
\* leaves the function before cache.set.
StoreResult(c, key, out) ==
    IF out.kind = "return" THEN CacheSet(c, key, out.v) ELSE c

\* memoized(...args); how: what func does if invoked.
Memoized(a, how) ==
    /\ Len(meLog) + meMutations < MaxCalls
    /\ LET key == MemoKey(resolver, a)
       IN IF CacheHas(cache, key)
          THEN /\ meLog' = Append(meLog,
                     [args |-> a, key |-> key, hit |-> TRUE,
                      got |-> Returned(cache[key]), muts |-> meMutations])
               /\ UNCHANGED <<cache, meInvoked>>
          ELSE LET out == Func(a, how)
               IN /\ meInvoked' = Append(meInvoked,
                        [args |-> a, key |-> key, out |-> out])
                  /\ cache' = StoreResult(cache, key, out)
                  /\ meLog' = Append(meLog,
                        [args |-> a, key |-> key, hit |-> FALSE, got |-> out,
                         muts |-> meMutations])
    /\ UNCHANGED <<resolver, meMutations>>

MemoOps == Len(meLog) + meMutations

\* memoized.cache.delete(key), by the code that holds the wrapper
MemoCacheDelete(key) ==
    /\ MemoOps < MaxCalls
    /\ cache' = [k \in DOMAIN cache \ {key} |-> cache[k]]
    /\ meMutations' = meMutations + 1
    /\ UNCHANGED <<resolver, meLog, meInvoked>>

\* memoized.cache.clear(), by the code that holds the wrapper
MemoCacheClear ==
    /\ MemoOps < MaxCalls
    /\ cache' = <<>>
    /\ meMutations' = meMutations + 1
    /\ UNCHANGED <<resolver, meLog, meInvoked>>

\* ------------------------------------------------------------- retry
\* Attempt k (the k-th call of func) fulfils with the value k or fails with
\* the error k.  A func that throws before returning a promise is caught by
\* the same try block: it is an attempt that fails in the instant it starts.
Pending == [state |-> "pending", v |-> 0, via |-> "none"]
NoTimer == [set |-> -1, left |-> 0]

RetryInit ==
    /\ reRetries \in -2..MaxRetries
    /\ reDelayMs \in 0..MaxDelay
    /\ rePc = "idle"
    /\ reI = 0
    /\ reLastError = 0
    /\ reTimer = NoTimer
    /\ rePromise = Pending
    /\ reLog = <<>>
    /\ reAge = 0
    /\ reSince = 0

\* Faulty variant of LoopHolds: i < retries.
LoopHoldsStrict(i, r) == i < r

\* for (...; i <= retries; ...)
LoopHolds(i, r) == i <= r

\* if (i < retries)
MoreAttempts(i, r) == i < r

\* Faulty variant of KeepError: only the first error is kept.
KeepFirstError(prev, err) == IF prev = 0 THEN err ELSE prev

\* lastError = error as Error;
KeepError(prev, err) == err

\* Faulty variant of RetryDelay: the delay grows with the attempts.
RetryDelayGrowing(d, i) == d * (i + 1)

\* setTimeout(resolve, delayMs) in iteration i
RetryDelay(d, i) == d

\* The loop head with i, run by the task `via` (log: the attempts so far):
\* the next call of func, or, the loop over, throw lastError (le).
RetryLoop(i, le, via, log) ==
    /\ reI' = i
    /\ reLastError' = le
    /\ reTimer' = NoTimer
    /\ IF LoopHolds(i, reRetries)
       THEN /\ rePc' = "func"
            /\ reLog' = Append(log,
                  [out |-> "pending",
                   gap |-> IF log = <<>> THEN -1
                           ELSE IF via = "settle" THEN 0 ELSE reSince,
                   timer |-> reTimer.set,
                   busy |-> log # <<>> /\ log[Len(log)].out = "pending"])
            /\ UNCHANGED rePromise
       ELSE /\ rePc' = "done"
            /\ reLog' = log
            /\ rePromise' = [state |-> "rejected", v |-> le, via |-> via]

\* retry(func, retries, delayMs) is called: let lastError; i = 0; the loop head.
RetryCall ==
    /\ rePc = "idle"
    /\ RetryLoop(0, reLastError, "call", reLog)
    /\ UNCHANGED <<reRetries, reDelayMs, reAge, reSince>>

Outcome(log, out) == [log EXCEPT ![Len(log)].out = out]

\* Faulty variant of RetrySettle: `await func()` without the return, so the
\* loop goes on after a success.
RetrySettleNoReturn(ok) ==
    /\ rePc = "func"
    /\ UNCHANGED <<reRetries, reDelayMs>>
    /\ reSince' = 0
    /\ reAge' = 0
    /\ IF ok
       THEN RetryLoop(reI + 1, reLastError, "settle", Outcome(reLog, "ok"))
       ELSE IF MoreAttempts(reI, reRetries)
       THEN /\ rePc' = "delay"
            /\ reLastError' = KeepError(reLastError, Len(reLog))
            /\ reTimer' = [set |-> RetryDelay(reDelayMs, reI),
                           left |-> RetryDelay(reDelayMs, reI)]
            /\ reLog' = Outcome(reLog, "err")
            /\ UNCHANGED <<reI, rePromise>>
       ELSE RetryLoop(reI + 1, KeepError(reLastError, Len(reLog)), "settle",
                      Outcome(reLog, "err"))

\* The promise func returned settles and the function resumes: return the
\* value; or catch: keep the error and, if attempts are left, start the delay,
\* else go on to i++ and the loop head.
RetrySettle(ok) ==
    /\ rePc = "func"
    /\ UNCHANGED <<reRetries, reDelayMs>>
    /\ reSince' = 0
    /\ reAge' = 0
    /\ IF ok
       THEN /\ rePc' = "done"
            /\ rePromise' = [state |-> "fulfilled", v |-> Len(reLog), via |-> "settle"]
            /\ reLog' = Outcome(reLog, "ok")
            /\ UNCHANGED <<reI, reLastError, reTimer>>
       ELSE IF MoreAttempts(reI, reRetries)
       THEN /\ rePc' = "delay"
            /\ reLastError' = KeepError(reLastError, Len(reLog))
            /\ reTimer' = [set |-> RetryDelay(reDelayMs, reI),
                           left |-> RetryDelay(reDelayMs, reI)]
            /\ reLog' = Outcome(reLog, "err")
            /\ UNCHANGED <<reI, rePromise>>
       ELSE RetryLoop(reI + 1, KeepError(reLastError, Len(reLog)), "settle",
                      Outcome(reLog, "err"))

\* The delay timer fires and the function resumes: i++, the loop head.
RetryTimerFire ==
    /\ rePc = "delay"
    /\ reTimer.left <= 0
    /\ RetryLoop(reI + 1, reLastError, "timer", reLog)
    /\ reAge' = 0
    /\ UNCHANGED <<reRetries, reDelayMs, reSince>>

\* One unit of time passes while retry is suspended.
RetryTick ==
    /\ rePc \in {"func", "delay"}
    /\ rePc = "func" => reAge < MaxSlack
    /\ rePc = "delay" => reTimer.left > -MaxSlack
    /\ reAge' = IF rePc = "func" THEN reAge + 1 ELSE reAge
    /\ reSince' = IF rePc = "delay" THEN reSince + 1 ELSE reSince
    /\ reTimer' = IF rePc = "delay" THEN [reTimer EXCEPT !.left = @ - 1] ELSE reTimer
    /\ UNCHANGED <<reRetries, reDelayMs, rePc, reI, reLastError, rePromise, reLog>>

\* ------------------------------------------------------------- retryImport
\* lazy-load.ts.  As for retry, the promise of the k-th call of importFn
\* fulfils with the value k or rejects with the error k.  An importFn that
\* fails every time is followed for ImportCap calls.
ImportCap == MaxRetries + 2

RetryImportInit ==
    /\ riRetries \in -1..MaxRetries
    /\ riDelayMs \in 0..MaxDelay
    /\ riPc = "idle"
    /\ riN = 0
    /\ riTimer = NoTimer
    /\ riPromise = Pending
    /\ riLog = <<>>
    /\ riAge = 0
    /\ riSince = 0

\* if (n === 0)
OutOfRetries(n) == n = 0

\* attempt(n): importFn() is called and its promise is pending.
Attempt(n) ==
    /\ riN' = n
    /\ riPc' = "import"
    /\ riTimer' = NoTimer
    /\ riLog' = Append(riLog,
          [out |-> "pending", n |-> n,
           gap |-> IF riLog = <<>> THEN -1 ELSE riSince,
           timer |-> riTimer.set])
    /\ riAge' = 0
    /\ UNCHANGED <<riRetries, riDelayMs, riPromise, riSince>>

\* retryImport(importFn, retries, delayMs): the executor runs attempt(retries).
RetryImportCall ==
    /\ riPc = "idle"
    /\ Attempt(riRetries)

\* The promise of importFn settles: .then(resolve), or the catch handler:
\* reject(error) if n === 0, else setTimeout(() => attempt(n - 1), delayMs).
ImportSettle(ok) ==
    /\ riPc = "import"
    /\ riLog' = Outcome(riLog, IF ok THEN "ok" ELSE "err")
    /\ riSince' = 0
    /\ riAge' = 0
    /\ IF ok
       THEN /\ riPc' = "done"
            /\ riPromise' = [state |-> "fulfilled", v |-> Len(riLog), via |-> "settle"]
            /\ UNCHANGED riTimer
       ELSE IF OutOfRetries(riN)
       THEN /\ riPc' = "done"
            /\ riPromise' = [state |-> "rejected", v |-> Len(riLog), via |-> "settle"]
            /\ UNCHANGED riTimer
       ELSE /\ riPc' = "delay"
            /\ riTimer' = [set |-> riDelayMs, left |-> riDelayMs]
            /\ UNCHANGED riPromise
    /\ UNCHANGED <<riRetries, riDelayMs, riN>>

\* The timer fires: attempt(n - 1).
ImportTimerFire ==
    /\ riPc = "delay"
    /\ riTimer.left <= 0
    /\ Len(riLog) < ImportCap
    /\ Attempt(riN - 1)

\* One unit of time passes while an import or the timer is pending.
ImportTick ==
    /\ riPc \in {"import", "delay"}
    /\ riPc = "import" => riAge < MaxSlack
    /\ riPc = "delay" => riTimer.left > -MaxSlack
    /\ riAge' = IF riPc = "import" THEN riAge + 1 ELSE riAge
    /\ riSince' = IF riPc = "delay" THEN riSince + 1 ELSE riSince
    /\ riTimer' = IF riPc = "delay" THEN [riTimer EXCEPT !.left = @ - 1] ELSE riTimer
    /\ UNCHANGED <<riRetries, riDelayMs, riPc, riN, riPromise, riLog>>

\* ------------------------------------------------------------- two wrappers of each kind
\* Every call of debounce, throttle, memoize, once or rateLimit runs the
\* function body afresh, so the let and const of that body are variables of
\* the closure that call created.  Wrappers 1 and 2 of each kind are built
\* around the same func: debounce(func, 0), throttle(func, IsoWait),
\* memoize(func), once(func), rateLimit(func, 0).  Timers and the clock belong
\* to the runtime and are common to all of them.
Instances == {1, 2}
Kinds == {"debounce", "throttle", "memoize", "once", "rateLimit"}
IsoWait == MaxDelay
IsoHorizon == IsoWait
NoActor == [kind |-> "none", inst |-> 0]
Actor(k, i) == [kind |-> k, inst |-> i]

\* Faulty variant of Cell: the variables are declared at module level, so
\* every wrapper reads and writes the same ones.
CellShared(i) == 1

\* The closure whose variables wrapper i reads and writes: its own.
Cell(i) == i

IsoInit ==
    /\ isoDbTimeout = [c \in Instances |-> Null]
    /\ isoThTimeout = [c \in Instances |-> Null]
    /\ isoLastRan = [c \in Instances |-> NoRun]
    /\ isoCache = [c \in Instances |-> <<>>]
    /\ isoCalled = [c \in Instances |-> FALSE]
    /\ isoResult = [c \in Instances |-> Undefined]
    /\ isoQueue = [c \in Instances |-> <<>>]
    /\ isoProcessing = [c \in Instances |-> FALSE]
    /\ isoTimers = {}
    /\ isoRunning = {}
    /\ isoHandles = 0
    /\ isoNow = 0
    /\ isoOps = 0
    /\ isoActor = NoActor

\* setTimeout(callback of wrapper i of kind k, delay)
IsoTimer(k, i, delay) ==
    [id |-> isoHandles + 1, kind |-> k, inst |-> i, due |-> isoNow + delay]

\* A wrapper call or a cancel by the program: a task of wrapper i of kind k.
IsoOp(k, i) ==
    /\ isoOps < MaxCalls
    /\ isoOps' = isoOps + 1
    /\ isoActor' = Actor(k, i)
    /\ UNCHANGED isoNow

\* A timer callback or promise continuation of wrapper i of kind k.
IsoTask(k, i) ==
    /\ isoActor' = Actor(k, i)
    /\ UNCHANGED <<isoOps, isoNow>>

\* debounced(...args) on wrapper i
IsoDebounced(i) ==
    /\ IsoOp("debounce", i)
    /\ isoTimers' = (IF isoDbTimeout[Cell(i)] # Null
                     THEN ClearTimeout(isoTimers, isoDbTimeout[Cell(i)])
                     ELSE isoTimers) \cup {IsoTimer("debounce", i, dbWait)}
    /\ isoDbTimeout' = [isoDbTimeout EXCEPT ![Cell(i)] = isoHandles + 1]
    /\ isoHandles' = isoHandles + 1
    /\ UNCHANGED <<isoThTimeout, isoLastRan, isoCache, isoCalled, isoResult,
                   isoQueue, isoProcessing, isoRunning>>

\* debounced.cancel() on wrapper i
IsoDebounceCancel(i) ==
    /\ IsoOp("debounce", i)
    /\ LET c == DebounceCancel(isoTimers, isoDbTimeout[Cell(i)])
       IN /\ isoTimers' = c.timers
          /\ isoDbTimeout' = [isoDbTimeout EXCEPT ![Cell(i)] = c.timeout]
    /\ UNCHANGED <<isoThTimeout, isoLastRan, isoCache, isoCalled, isoResult,
                   isoQueue, isoProcessing, isoRunning, isoHandles>>

\* The timer callback of a debounce wrapper: func(...args); timeout = null;
IsoDebounceFire(tm) ==
    /\ tm \in isoTimers
    /\ tm.kind = "debounce"
    /\ isoNow >= tm.due
    /\ IsoTask("debounce", tm.inst)
    /\ isoTimers' = isoTimers \ {tm}
    /\ isoDbTimeout' = [isoDbTimeout EXCEPT ![Cell(tm.inst)] = Null]
    /\ UNCHANGED <<isoThTimeout, isoLastRan, isoCache, isoCalled, isoResult,
                   isoQueue, isoProcessing, isoRunning, isoHandles>>

\* throttled(...args) on wrapper i
IsoThrottled(i) ==
    /\ IsoOp("throttle", i)
    /\ IF Leading(isoLastRan[Cell(i)], isoNow, IsoWait)
       THEN /\ isoLastRan' = [isoLastRan EXCEPT ![Cell(i)] = isoNow]
            /\ UNCHANGED <<isoThTimeout, isoTimers, isoHandles>>
       ELSE IF isoThTimeout[Cell(i)] = Null
       THEN /\ isoTimers' = isoTimers \cup
                  {IsoTimer("throttle", i,
                            Remaining(isoLastRan[Cell(i)], isoNow, IsoWait))}
            /\ isoThTimeout' = [isoThTimeout EXCEPT ![Cell(i)] = isoHandles + 1]
            /\ isoHandles' = isoHandles + 1
            /\ UNCHANGED isoLastRan
       ELSE UNCHANGED <<isoLastRan, isoThTimeout, isoTimers, isoHandles>>
    /\ UNCHANGED <<isoDbTimeout, isoCache, isoCalled, isoResult, isoQueue,
                   isoProcessing, isoRunning>>

\* throttled.cancel() on wrapper i
IsoThrottleCancel(i) ==
    /\ IsoOp("throttle", i)
    /\ IF isoThTimeout[Cell(i)] # Null
       THEN /\ isoTimers' = ClearTimeout(isoTimers, isoThTimeout[Cell(i)])
            /\ isoThTimeout' = [isoThTimeout EXCEPT ![Cell(i)] = Null]
       ELSE UNCHANGED <<isoTimers, isoThTimeout>>
    /\ isoLastRan' = [isoLastRan EXCEPT ![Cell(i)] = NoRun]
    /\ UNCHANGED <<isoDbTimeout, isoCache, isoCalled, isoResult, isoQueue,
                   isoProcessing, isoRunning, isoHandles>>

\* The timer callback of a throttle wrapper: func; lastRan = Date.now();
\* timeout = null;
IsoThrottleFire(tm) ==
    /\ tm \in isoTimers
    /\ tm.kind = "throttle"
    /\ isoNow >= tm.due
    /\ IsoTask("throttle", tm.inst)
    /\ isoTimers' = isoTimers \ {tm}
    /\ isoLastRan' = [isoLastRan EXCEPT ![Cell(tm.inst)] = isoNow]
    /\ isoThTimeout' = [isoThTimeout EXCEPT ![Cell(tm.inst)] = Null]
    /\ UNCHANGED <<isoDbTimeout, isoCache, isoCalled, isoResult, isoQueue,
                   isoProcessing, isoRunning, isoHandles>>

\* memoized(...args) on wrapper i
IsoMemoized(i, a) ==
    /\ IsoOp("memoize", i)
    /\ LET key == MemoKey(resolver, a)
       IN isoCache' =
             IF CacheHas(isoCache[Cell(i)], key) THEN isoCache
             ELSE [isoCache EXCEPT
                     ![Cell(i)] = StoreResult(@, key, Func(a, "value"))]
    /\ UNCHANGED <<isoDbTimeout, isoThTimeout, isoLastRan, isoCalled, isoResult,
                   isoQueue, isoProcessing, isoTimers, isoRunning, isoHandles>>

\* The wrapper once returned, wrapper i, called with args
IsoOnce(i, a, how) ==
    /\ IsoOp("once", i)
    /\ IF MustInvoke(isoCalled[Cell(i)])
       THEN LET out == Func(a, how)
            IN /\ isoCalled' = [isoCalled EXCEPT ![Cell(i)] = MarkCalled(out)]
               /\ isoResult' = IF out.kind = "return"
                               THEN [isoResult EXCEPT ![Cell(i)] = out.v]
                               ELSE isoResult
       ELSE UNCHANGED <<isoCalled, isoResult>>
    /\ UNCHANGED <<isoDbTimeout, isoThTimeout, isoLastRan, isoCache, isoQueue,
                   isoProcessing, isoTimers, isoRunning, isoHandles>>

\* processQueue() of rateLimit wrapper i, run on its queue q and flag p
IsoProcessQueue(i, q, p, running) ==
    IF ~MayStart(p, q)
    THEN /\ isoQueue' = [isoQueue EXCEPT ![Cell(i)] = q]
         /\ isoProcessing' = [isoProcessing EXCEPT ![Cell(i)] = p]
         /\ isoRunning' = running
    ELSE /\ isoProcessing' = [isoProcessing EXCEPT ![Cell(i)] = TRUE]
         /\ isoQueue' = [isoQueue EXCEPT ![Cell(i)] = Dequeue(q).rest]
         /\ isoRunning' = running \cup {[inst |-> i, req |-> Dequeue(q).req]}

\* The wrapper rateLimit returned, wrapper i: queue.push(...); processQueue();
IsoRateLimited(i, a) ==
    /\ IsoOp("rateLimit", i)
    /\ IsoProcessQueue(i, Enqueue(isoQueue[Cell(i)], [id |-> isoOps + 1, args |-> a]),
                       isoProcessing[Cell(i)], isoRunning)
    /\ UNCHANGED <<isoDbTimeout, isoThTimeout, isoLastRan, isoCache, isoCalled,
                   isoResult, isoTimers, isoHandles>>

\* The promise func returned to a rateLimit wrapper settles: the call's
\* promise is settled and the cooldown timer is set.
IsoRateLimitFinish(r) ==
    /\ r \in isoRunning
    /\ IsoTask("rateLimit", r.inst)
    /\ isoRunning' = isoRunning \ {r}
    /\ isoTimers' = isoTimers \cup
          {IsoTimer("rateLimit", r.inst, CooldownDelay(minDelay))}
    /\ isoHandles' = isoHandles + 1
    /\ UNCHANGED <<isoDbTimeout, isoThTimeout, isoLastRan, isoCache, isoCalled,
                   isoResult, isoQueue, isoProcessing>>

\* The cooldown timer of a rateLimit wrapper fires: processing = false;
\* processQueue();
IsoRateLimitFire(tm) ==
    /\ tm \in isoTimers
    /\ tm.kind = "rateLimit"
    /\ isoNow >= tm.due
    /\ IsoTask("rateLimit", tm.inst)
    /\ isoTimers' = isoTimers \ {tm}
    /\ IsoProcessQueue(tm.inst, isoQueue[Cell(tm.inst)], FALSE, isoRunning)
    /\ UNCHANGED <<isoDbTimeout, isoThTimeout, isoLastRan, isoCache, isoCalled,
                   isoResult, isoHandles>>

\* One unit of time passes.
IsoTick ==
    /\ isoOps > 0
    /\ isoNow < IsoHorizon
    /\ isoNow' = isoNow + 1
    /\ isoActor' = NoActor
    /\ UNCHANGED <<isoDbTimeout, isoThTimeout, isoLastRan, isoCache, isoCalled,
                   isoResult, isoQueue, isoProcessing, isoTimers, isoRunning,
                   isoHandles, isoOps>>

\* ------------------------------------------------------------- specifications
\* Each specification runs one wrapper and leaves the others as constructed.
rlOthers == <<thVars, dbVars, onVars, meVars, reVars, riVars,
             isoVars>>
thOthers == <<rlVars, dbVars, onVars, meVars, reVars, riVars,
             isoVars>>
dbOthers == <<rlVars, thVars, onVars, meVars, reVars, riVars,
             isoVars>>
onOthers == <<rlVars, thVars, dbVars, meVars, reVars, riVars,
             isoVars>>
meOthers == <<rlVars, thVars, dbVars, onVars, reVars, riVars,
             isoVars>>
reOthers == <<rlVars, thVars, dbVars, onVars, meVars, riVars, isoVars>>
riOthers == <<rlVars, thVars, dbVars, onVars, meVars, reVars, isoVars>>
isoOthers == <<rlVars, thVars, dbVars, onVars, meVars, reVars, riVars>>

\* The wrappers left as constructed, with their parameters fixed.
RLAside == RLInit /\ minDelay = 0
ThAside == ThInit /\ wait = 0
DbAside == DbInit /\ dbWait = 0
MemoAside == MemoInit /\ resolver = "none"
RetryAside == RetryInit /\ reRetries = 0 /\ reDelayMs = 0
ImportAside == RetryImportInit /\ riRetries = 0 /\ riDelayMs = 0
Rest == RetryAside /\ ImportAside /\ IsoInit

\* One rateLimit wrapper.
RLSubmit == UNCHANGED rlOthers /\ \E a \in Args, s \in BOOLEAN : RLCall(a, s)
RLSettle == UNCHANGED rlOthers /\ \E r \in rlRunning, ok \in BOOLEAN : RLFinish(r, ok)
RLWake == UNCHANGED rlOthers /\ \E tm \in rlTimers, s \in BOOLEAN : RLTimerFire(tm, s)
RLPass == UNCHANGED rlOthers /\ RLTick

RLSpecInit == RLInit /\ ThAside /\ DbAside /\ OnceInit /\ MemoAside /\ Rest

RLNext == RLSubmit \/ RLSettle \/ RLWake \/ RLPass

RLSpec == RLSpecInit /\ [][RLNext]_vars

\* One throttle wrapper.
ThCalled == UNCHANGED thOthers /\ \E a \in Args : ThCall(a)
ThFired == UNCHANGED thOthers /\ \E tm \in thTimers : ThTimerFire(tm)
ThCancelled == UNCHANGED thOthers /\ ThCancel
ThPass == UNCHANGED thOthers /\ ThTick

ThSpecInit == ThInit /\ RLAside /\ DbAside /\ OnceInit /\ MemoAside /\ Rest

ThNext == ThCalled \/ ThFired \/ ThCancelled \/ ThPass

ThSpec == ThSpecInit /\ [][ThNext]_vars

\* One debounce wrapper; the wrapped function may call the wrapper again from
\* inside an invocation.
DbCalled == UNCHANGED dbOthers /\ \E a \in Args : DbCall(a)
DbFired ==
    UNCHANGED dbOthers /\ \E tm \in dbTimers, re \in {"none"} \cup Args :
                              DbTimerFire(tm, re)
DbCancelled == UNCHANGED dbOthers /\ DbCancel
DbPass == UNCHANGED dbOthers /\ DbTick

DbSpecInit == DbInit /\ RLAside /\ ThAside /\ OnceInit /\ MemoAside /\ Rest

DbNext == DbCalled \/ DbFired \/ DbCancelled \/ DbPass

DbSpec == DbSpecInit /\ [][DbNext]_vars

\* One debounce wrapper around a function that never calls the wrapper.
DbFiredPlain == UNCHANGED dbOthers /\ \E tm \in dbTimers : DbTimerFire(tm, "none")

DbPlainNext == DbCalled \/ DbFiredPlain \/ DbCancelled \/ DbPass

DbPlainSpec == DbSpecInit /\ [][DbPlainNext]_vars

\* One once wrapper.
OnceCalled ==
    UNCHANGED onOthers /\ \E a \in ArgLists, how \in {"value", "undefined", "throw"} :
                              OnceCall(a, how)

OnceSpecInit == OnceInit /\ RLAside /\ ThAside /\ DbAside /\ MemoAside /\ Rest

OnceNext == OnceCalled

OnceSpec == OnceSpecInit /\ [][OnceNext]_vars

\* One memoize wrapper.
MemoCalled ==
    UNCHANGED meOthers /\ \E a \in ArgLists, how \in {"value", "undefined", "throw"} :
                              Memoized(a, how)

MemoSpecInit == MemoInit /\ RLAside /\ ThAside /\ DbAside /\ OnceInit /\ Rest

MemoNext == MemoCalled

MemoSpec == MemoSpecInit /\ [][MemoNext]_vars

\* One memoize wrapper whose cache is also changed through memoized.cache.
MemoDeleted ==
    UNCHANGED meOthers /\ \E a \in ArgLists : MemoCacheDelete(MemoKey(resolver, a))
MemoCleared == UNCHANGED meOthers /\ MemoCacheClear

MemoExtNext == MemoCalled \/ MemoDeleted \/ MemoCleared

MemoExtSpec == MemoSpecInit /\ [][MemoExtNext]_vars

\* One call of retry.
RetryCalled == UNCHANGED reOthers /\ RetryCall
RetrySettled == UNCHANGED reOthers /\ \E ok \in BOOLEAN : RetrySettle(ok)
RetryWoken == UNCHANGED reOthers /\ RetryTimerFire
RetryPass == UNCHANGED reOthers /\ RetryTick

RetrySpecInit ==
    /\ RetryInit
    /\ RLAside /\ ThAside /\ DbAside /\ OnceInit /\ MemoAside /\ ImportAside /\ IsoInit

RetryNext == RetryCalled \/ RetrySettled \/ RetryWoken \/ RetryPass

RetrySpec == RetrySpecInit /\ [][RetryNext]_vars

\* One call of retryImport.
ImportCalled == UNCHANGED riOthers /\ RetryImportCall
ImportSettled == UNCHANGED riOthers /\ \E ok \in BOOLEAN : ImportSettle(ok)
ImportWoken == UNCHANGED riOthers /\ ImportTimerFire
ImportPass == UNCHANGED riOthers /\ ImportTick

ImportSpecInit ==
    /\ RetryImportInit
    /\ RLAside /\ ThAside /\ DbAside /\ OnceInit /\ MemoAside /\ RetryAside /\ IsoInit

ImportNext == ImportCalled \/ ImportSettled \/ ImportWoken \/ ImportPass

ImportSpec == ImportSpecInit /\ [][ImportNext]_vars

\* Two wrappers of each kind.
IsoDebounceCalled == UNCHANGED isoOthers /\ \E i \in Instances : IsoDebounced(i)
IsoDebounceCancelled == UNCHANGED isoOthers /\ \E i \in Instances : IsoDebounceCancel(i)
IsoDebounceFired == UNCHANGED isoOthers /\ \E tm \in isoTimers : IsoDebounceFire(tm)
IsoThrottleCalled == UNCHANGED isoOthers /\ \E i \in Instances : IsoThrottled(i)
IsoThrottleCancelled == UNCHANGED isoOthers /\ \E i \in Instances : IsoThrottleCancel(i)
IsoThrottleFired == UNCHANGED isoOthers /\ \E tm \in isoTimers : IsoThrottleFire(tm)
IsoMemoCalled ==
    UNCHANGED isoOthers /\ \E i \in Instances, a \in {<<JsNumber("1")>>, <<JsNull>>} :
                               IsoMemoized(i, a)
IsoOnceCalled ==
    UNCHANGED isoOthers /\ \E i \in Instances, how \in {"value", "throw"} :
                               IsoOnce(i, <<JsNumber("1")>>, how)
IsoRateLimitCalled ==
    UNCHANGED isoOthers /\ \E i \in Instances : IsoRateLimited(i, "a")
IsoRateLimitSettled ==
    UNCHANGED isoOthers /\ \E r \in isoRunning : IsoRateLimitFinish(r)
IsoRateLimitWoken == UNCHANGED isoOthers /\ \E tm \in isoTimers : IsoRateLimitFire(tm)
IsoPass == UNCHANGED isoOthers /\ IsoTick

IsoSpecInit ==
    /\ IsoInit
    /\ RLAside /\ ThAside /\ DbAside /\ OnceInit /\ MemoAside /\ RetryAside
    /\ ImportAside

IsoNext ==
    \/ IsoDebounceCalled
    \/ IsoDebounceCancelled
    \/ IsoDebounceFired
    \/ IsoThrottleCalled
    \/ IsoThrottleCancelled
    \/ IsoThrottleFired
    \/ IsoMemoCalled
    \/ IsoOnceCalled
    \/ IsoRateLimitCalled
    \/ IsoRateLimitSettled
    \/ IsoRateLimitWoken
    \/ IsoPass

IsoSpec == IsoSpecInit /\ [][IsoNext]_vars

\* The event loop runs every task that is ready: awaited promises settle,
\* due timers fire, and time passes.
RLFairSpec ==
    /\ RLSpec
    /\ WF_vars(RLSettle)
    /\ WF_vars(RLWake)
    /\ WF_vars(RLPass)

\* ------------------------------------------------------------- rateLimit properties
CallIds == 1..MaxCalls
Submitted(id) == id <= rlCalls
InvokedAt(id) == {k \in 1..Len(rlInvoked) : rlInvoked[k].id = id}
SettledAt(id) == {k \in 1..Len(rlSettled) : rlSettled[k].id = id}
Settled(id) == SettledAt(id) # {}
Rejected(id) == \E k \in SettledAt(id) : rlSettled[k].state = "rejected"
InvocationStarts == Len(rlInvoked') > Len(rlInvoked)

\* C1: func is invoked in the order the calls were submitted, and the calls'
\* promises settle in that same order: the k-th invocation and the k-th
\* settlement both belong to the k-th submitted call.
C1_Fifo ==
    /\ \A k \in 1..Len(rlInvoked) : rlInvoked[k].id = k
    /\ \A k \in 1..Len(rlSettled) : rlSettled[k].id = k

\* Three calls submitted in one instant (two of them queued) are all settled.
C1_Witness ==
    /\ Len(rlSettled) = 3
    /\ rlBurst.together
    /\ Len(rlBurst.starts) = 3

\* C2: at most one invocation of func is in flight: no invocation starts
\* while another is still awaited, however many calls are queued meanwhile.
C2_OneInFlight ==
    /\ Cardinality(rlRunning) <= 1
    /\ \A k \in 1..Len(rlInvoked) : rlInvoked[k].busy = 0

\* Two calls are queued behind an asynchronous invocation that is in flight,
\* or a call is queued while a cooldown is pending.
C2_Witness ==
    \/ Cardinality(rlRunning) = 1 /\ Len(queue) = 2
    \/ rlTimers # {} /\ Len(queue) = 1 /\ Len(rlInvoked) = 2

\* C3: every invocation after the first starts when the previous one has
\* ended, and at least minDelay after that end, whether it succeeded or
\* failed and whether the call was queued or arrived after the cooldown.
C3_CooldownGap ==
    [][InvocationStarts /\ Len(rlInvoked) > 0
         => /\ rlRunning = {}
            /\ rlSinceEnd >= minDelay]_vars

\* The first invocation failed; the second call arrived at an idle wrapper
\* (after the cooldown) and its invocation has just started.
C3_Witness ==
    /\ minDelay > 0
    /\ Len(rlInvoked) = 2
    /\ Rejected(1)
    /\ rlBurst.starts = <<0>>
    /\ rlBurst.at = 0
    /\ rlRunning # {}
    /\ rlSinceEnd >= minDelay

\* C4: a failure of func rejects the promise of the call it was invoked for,
\* with that error, and no other: every promise is settled once, by the
\* outcome of its own invocation; and after a rejection every submitted call
\* is still settled.
C4_FailureIsolated ==
    /\ [](rlLastSet # None =>
            /\ (rlLastSet.res.state = "rejected") <=> (rlLastSet.out.kind = "error")
            /\ rlLastSet.res.v = rlLastSet.out.v
            /\ rlLastSet.out.v = rlLastSet.own)
    /\ [](\A k \in 1..Len(rlSettled) :
            Cardinality(SettledAt(rlSettled[k].id)) = 1)
    /\ \A j \in CallIds :
          ((\E i \in CallIds : Rejected(i)) /\ Submitted(j)) ~> Settled(j)

\* The first call was rejected, the second fulfilled, the third settled.
C4_Witness ==
    /\ Len(rlSettled) = 3
    /\ rlSettled[1].state = "rejected"
    /\ rlSettled[2].state = "fulfilled"

\* C5: every submitted call is invoked at most once, with its own arguments,
\* is settled only after its invocation, with what that invocation produced,
\* and is eventually settled.
C5_EveryCallSettles ==
    /\ [](\A id \in CallIds :
            /\ Cardinality(InvokedAt(id)) <= 1
            /\ Cardinality(SettledAt(id)) <= Cardinality(InvokedAt(id))
            /\ InvokedAt(id) # {} => Submitted(id))
    /\ [](rlLastInv # None /\ rlLastInv.id \in DOMAIN rlArgs
            => rlLastInv.args = rlArgs[rlLastInv.id])
    /\ [](rlLastSet # None =>
            /\ rlLastSet.res = SettleWith(rlLastSet.out)
            /\ rlLastSet.res.v = rlLastSet.own)
    /\ \A id \in CallIds : Submitted(id) ~> Settled(id)

\* Three calls have all been settled, the last with a value.
C5_Witness ==
    /\ rlCalls = 3
    /\ \A id \in 1..3 : Settled(id)
    /\ rlLastSet.id = 3
    /\ rlLastSet.res = [state |-> "fulfilled", v |-> "b"]

\* C6: a call to an idle wrapper is invoked in the task that submits it; and
\* calls submitted in one instant to an idle wrapper, with func ending in the
\* instant it starts and punctual timers, start at t0, t0 + minDelay,
\* t0 + 2*minDelay, ..., none while another is in flight.
C6_BurstStarts ==
    /\ [](rlBurst.together =>
            \A i \in 1..Len(rlBurst.starts) :
                rlBurst.starts[i] = (i - 1) * minDelay)
    /\ [](\A k \in 1..Len(rlInvoked) : rlInvoked[k].busy = 0)
    /\ [][rlCalls' > rlCalls /\ ~processing
            => /\ InvocationStarts
               /\ rlInvoked'[Len(rlInvoked')].id = rlCalls'
               /\ rlBurst'.starts = <<0>>
               /\ rlBurst'.at = 0]_vars

\* Three calls submitted together have started minDelay > 0 apart.
C6_Witness ==
    /\ minDelay > 0
    /\ rlBurst.together
    /\ Len(rlBurst.starts) = 3

\* The continuations of processQueue that are outstanding: those waiting for
\* the promise of func and those waiting for the cooldown timer.
Continuations == Cardinality(rlRunning) + Cardinality(rlTimers)

\* C28: between tasks, a non-empty queue implies processing; processing holds
\* exactly when one continuation of processQueue is outstanding, and there is
\* never more than one; processing is reset only by the cooldown continuation,
\* which then finds the queue empty.
C28_NoLostWakeup ==
    /\ [](Len(queue) > 0 => processing)
    /\ [](processing <=> Continuations = 1)
    /\ [](Continuations <= 1)
    /\ [][processing /\ ~processing' =>
            /\ \E tm \in rlTimers : tm.left <= 0 /\ rlTimers' = rlTimers \ {tm}
            /\ queue = <<>>]_vars

\* Two requests wait in the queue while the cooldown of a third is pending.
C28_Witness ==
    /\ Len(queue) = 2
    /\ processing
    /\ rlRunning = {}
    /\ Cardinality(rlTimers) = 1

\* ------------------------------------------------------------- throttle properties
CallMade == Len(thLog') = Len(thLog) + 1
TheCall == thLog'[Len(thLog')]
FuncInvoked == Len(thInvoked') = Len(thInvoked) + 1
TheInvocation == thInvoked'[Len(thInvoked')]

\* C7: absent cancel(), any two invocations of func by one throttled wrapper
\* are at least wait apart, also when the trailing timer fires late.
C7_AtMostOncePerWait ==
    thCancels = 0 =>
        \A k \in 2..Len(thInvoked) : thInvoked[k].t - thInvoked[k - 1].t >= wait

\* C8: the trailing invocation receives the arguments of the most recent of
\* the calls that arrived since the leading invocation.
C8_TrailingUsesLatestArgs ==
    \A k \in 1..Len(thInvoked) :
        thInvoked[k].edge = "trailing" => thInvoked[k].args = thInvoked[k].recent

\* C9: a call made when lastRan is unset, or at least wait after lastRan,
\* invokes func in the same task with the call's arguments and sets lastRan
\* to the current time.
C9_LeadingEdge ==
    [][CallMade /\ (lastRan = NoRun \/ now - lastRan >= wait)
         => /\ FuncInvoked
            /\ TheInvocation.t = now
            /\ TheInvocation.edge = "leading"
            /\ TheInvocation.args = TheCall.args
            /\ lastRan' = now
            /\ thTimers' = thTimers]_vars

\* After a cancel, a call inside the window of the previous invocation was
\* invoked at once with its own arguments.
C9_Witness ==
    /\ thCancels = 1
    /\ Len(thInvoked) = 2
    /\ thInvoked[2].edge = "leading"
    /\ thInvoked[2].t - thInvoked[1].t < wait
    /\ thInvoked[2].args # thInvoked[1].args
    /\ lastRan = thInvoked[2].t

\* C10: a call made less than wait after lastRan with no timer pending
\* schedules exactly one timer, due at lastRan + wait, and invokes nothing;
\* when a timer fires, func receives the arguments captured at scheduling,
\* lastRan becomes the current time and the handle is cleared; so two calls
\* inside one window give exactly two invocations: the first call's at once,
\* the second call's by the timer due at lastRan + wait (never before it).
C10_TrailingEdge ==
    /\ [][CallMade /\ lastRan # NoRun /\ now - lastRan < wait /\ timeout = Null
            => /\ thInvoked' = thInvoked
               /\ lastRan' = lastRan
               /\ Cardinality(thTimers') = Cardinality(thTimers) + 1
               /\ \E tm \in thTimers' \ thTimers :
                    /\ thTimers' = thTimers \cup {tm}
                    /\ tm.due = lastRan + wait
                    /\ tm.args = TheCall.args
                    /\ timeout' = tm.id]_vars
    /\ [][FuncInvoked /\ TheInvocation.edge = "trailing"
            => /\ timeout' = Null
               /\ lastRan' = now
               /\ \E tm \in thTimers \ thTimers' :
                    /\ now >= tm.due
                    /\ TheInvocation.args = tm.args
                    /\ TheInvocation.due = tm.due]_vars
    /\ [](/\ Len(thLog) = 2
          /\ thCancels = 0
          /\ thLog[2].t - thLog[1].t < wait
          => /\ Len(thInvoked) >= 1
             /\ thInvoked[1].edge = "leading"
             /\ thInvoked[1].t = thLog[1].t
             /\ thInvoked[1].args = thLog[1].args
             /\ IF thTimers # {}
                THEN Len(thInvoked) = 1 /\ Cardinality(thTimers) = 1
                ELSE /\ Len(thInvoked) = 2
                     /\ thInvoked[2].edge = "trailing"
                     /\ thInvoked[2].args = thLog[2].args
                     /\ thInvoked[2].due = thInvoked[1].t + wait
                     /\ thInvoked[2].t >= thInvoked[2].due)

\* Two calls with differing arguments inside one window of wait = 2; the
\* timer has fired.
C10_Witness ==
    /\ wait = 2
    /\ Len(thLog) = 2
    /\ thCancels = 0
    /\ thLog[2].t = thLog[1].t + 1
    /\ thLog[1].args # thLog[2].args
    /\ Len(thInvoked) = 2
    /\ thInvoked[2].t = thInvoked[1].t + wait

\* C11: cancel() invokes nothing, clears the pending timer and the handle and
\* unsets lastRan; while lastRan is unset no timer is pending, so the cleared
\* timer never invokes func; lastRan stays unset until the next call, and
\* that call invokes func in the same task with its own arguments, however
\* recently func last ran.
ThCancelMade == thCancels' = thCancels + 1
C11_ThrottleCancel ==
    /\ [][ThCancelMade
            => /\ thInvoked' = thInvoked
               /\ timeout' = Null
               /\ \A tm \in thTimers' : tm.id # timeout
               /\ lastRan' = NoRun]_vars
    /\ [](lastRan = NoRun => thTimers = {})
    /\ [][lastRan = NoRun /\ ~CallMade => lastRan' = NoRun]_vars
    /\ [][CallMade /\ thCancels > 0 /\ lastRan = NoRun
            => /\ FuncInvoked
               /\ TheInvocation.edge = "leading"
               /\ TheInvocation.t = now
               /\ TheInvocation.args = TheCall.args]_vars

\* A timer was pending when cancel() was called; it has not fired although
\* its due time has passed.
C11_Witness ==
    /\ thCancels = 1
    /\ Len(thLog) = 2
    /\ thLog[2].path = "scheduled"
    /\ Len(thInvoked) = 1
    /\ thTimers = {}
    /\ lastRan = NoRun
    /\ now > thInvoked[1].t + wait

\* ------------------------------------------------------------- debounce properties
DbCancelMade == dbCancels' = dbCancels + 1
DbInvokedFor(c) == {k \in 1..Len(dbInvoked) : dbInvoked[k].call = c}

\* C12: in a burst (each call less than wait after the previous one) only the
\* last call is ever invoked: a call followed by another less than wait later
\* is never invoked; a call is invoked at most once, with its own arguments,
\* by a timer due wait after the call.
C12_BurstCollapses ==
    /\ \A c \in 1..Len(dbLog) :
          /\ Cardinality(DbInvokedFor(c)) <= 1
          /\ c < Len(dbLog) /\ dbLog[c + 1].close => DbInvokedFor(c) = {}
    /\ \A k \in 1..Len(dbInvoked) :
          /\ dbInvoked[k].args = dbLog[dbInvoked[k].call].args
          /\ dbInvoked[k].late >= 0

\* C13: func is never invoked for a call made before a cancel(): every
\* invocation is for a call made after the latest cancel() that preceded it.
C13_CancelSuppresses ==
    \A k \in 1..Len(dbInvoked) : dbInvoked[k].call > dbInvoked[k].barrier

\* C14: a debounce wrapper and a throttle wrapper each have at most one timer
\* pending, and it is the one whose handle is in the wrapper's timeout.
C14_OneLiveTimer ==
    /\ Cardinality(dbTimers) <= 1
    /\ \A tm \in dbTimers : tm.id = dbTimeout
    /\ Cardinality(thTimers) <= 1
    /\ \A tm \in thTimers : tm.id = timeout

\* C15: with wait = 0 func is invoked by a timer callback, in a task after the
\* call's, so that a cancel() or another call made before that task
\* suppresses or replaces the invocation: every invocation is for the
\* latest call made, and for no call made before a cancel().
C15_ZeroWaitDeferred ==
    dbWait = 0 =>
        \A k \in 1..Len(dbInvoked) :
            /\ dbInvoked[k].call = dbInvoked[k].calls
            /\ dbInvoked[k].call > dbInvoked[k].barrier

\* C16: cancel() invokes nothing and leaves the handle null; called with a
\* null handle or with no timer pending it changes nothing; so a second
\* cancel() in a row changes nothing.
C16_CancelIdempotent ==
    /\ [][DbCancelMade => dbTimeout' = Null /\ dbInvoked' = dbInvoked]_vars
    /\ [][DbCancelMade /\ (dbTimeout = Null \/ dbTimers = {})
            => /\ dbTimers' = dbTimers
               /\ dbTimeout' = dbTimeout
               /\ dbInvoked' = dbInvoked]_vars

\* A call, then two cancels in a row; nothing was invoked.
C16_Witness ==
    /\ Len(dbLog) = 1
    /\ dbCancels = 2
    /\ dbInvoked = <<>>
    /\ dbTimers = {}
    /\ dbSince > dbWait

\* ------------------------------------------------------------- once properties
\* C17: once any call has been made, func has been invoked exactly once, with
\* the first call's arguments; if that invocation returned a value, every
\* call so far returned that value, whatever its own arguments; and the
\* called flag and the stored result never change afterwards.
C17_OnceOnly ==
    /\ [](Len(onLog) >= 1 =>
            /\ Len(onInvoked) = 1
            /\ onInvoked[1].args = onLog[1].args
            /\ called
            /\ onInvoked[1].out.kind = "return" =>
                  /\ result = onInvoked[1].out.v
                  /\ \A k \in 1..Len(onLog) :
                        onLog[k].got = Returned(onInvoked[1].out.v))
    /\ [][called => called' /\ result' = result /\ onInvoked' = onInvoked]_vars

\* Three calls with three different argument lists all returned the value
\* func computed from the first.
C17_Witness ==
    /\ Len(onLog) = 3
    /\ onLog[1].args # onLog[2].args
    /\ onLog[2].args # onLog[3].args
    /\ onLog[1].args # onLog[3].args
    /\ onLog[3].got = Returned(ValueOf(onLog[1].args))

\* ------------------------------------------------------------- memoize properties
MemoCallMade == Len(meLog') = Len(meLog) + 1
TheMemoCall == meLog'[Len(meLog')]
MemoInvoked == Len(meInvoked') = Len(meInvoked) + 1
TheMemoInvocation == meInvoked'[Len(meInvoked')]

\* C18: a call whose key is in the cache returns the stored result, also
\* when that is undefined, invokes nothing and leaves the cache as it is; a
\* call whose key is not in the cache invokes func with the call's arguments
\* and, when func returns, stores the result under the key and returns it, so
\* that the cache then holds that result for the key; hence no two
\* invocations that returned have the same key.
C18_OncePerKey ==
    /\ [][MemoCallMade /\ TheMemoCall.key \in DOMAIN cache
            => /\ meInvoked' = meInvoked
               /\ cache' = cache
               /\ TheMemoCall.hit
               /\ TheMemoCall.got = Returned(cache[TheMemoCall.key])]_vars
    /\ [][MemoCallMade /\ TheMemoCall.key \notin DOMAIN cache
            => /\ MemoInvoked
               /\ ~TheMemoCall.hit
               /\ TheMemoInvocation.args = TheMemoCall.args
               /\ TheMemoCall.got = TheMemoInvocation.out
               /\ TheMemoCall.got.kind = "return" =>
                     /\ TheMemoCall.key \in DOMAIN cache'
                     /\ cache'[TheMemoCall.key] = TheMemoCall.got.v
                     /\ \A k \in DOMAIN cache : cache'[k] = cache[k]]_vars
    /\ [](\A i, j \in 1..Len(meInvoked) :
            /\ i < j
            /\ meInvoked[i].out.kind = "return"
            => meInvoked[i].key # meInvoked[j].key)

\* The first call stored undefined; the second call, with the same key, was
\* served from the cache.
C18_Witness ==
    /\ Len(meLog) = 2
    /\ Len(meInvoked) = 1
    /\ meInvoked[1].out = Returned(Undefined)
    /\ meLog[2].hit
    /\ meLog[2].got = Returned(Undefined)

\* C19: with a resolver the key is resolver(...args); without one, equal
\* argument lists give equal keys and argument lists that differ (in a
\* value, in a type or in the order) give different keys, and no call gets a
\* value computed from other arguments than its own.
C19_KeysDistinguishArgs ==
    /\ \A k \in 1..Len(meLog) :
          resolver # "none" => meLog[k].key = meLog[k].args[1].v
    /\ resolver = "none" =>
          /\ \A i, j \in 1..Len(meLog) :
                (meLog[i].args = meLog[j].args) <=> (meLog[i].key = meLog[j].key)
          /\ \A k \in 1..Len(meLog) :
                meLog[k].got.kind = "return" /\ ~meLog[k].got.v.undef
                => meLog[k].got.v.of = meLog[k].args

\* C20: when func throws on a miss the call throws that error and the cache
\* is unchanged, with no entry for the key; and a call whose key has no entry
\* invokes func, so the next call with that key invokes it again.
C20_ErrorsNotCached ==
    /\ [][MemoCallMade /\ MemoInvoked /\ TheMemoInvocation.out.kind = "throw"
            => /\ TheMemoCall.got = Threw(TheMemoCall.args)
               /\ cache' = cache
               /\ TheMemoCall.key \notin DOMAIN cache']_vars
    /\ [][MemoCallMade /\ ~TheMemoCall.hit
            => MemoInvoked /\ TheMemoInvocation.args = TheMemoCall.args]_vars
    /\ [](\A k, j \in 1..Len(meLog) :
            /\ k < j
            /\ meLog[k].got.kind = "throw"
            /\ meLog[j].key = meLog[k].key
            /\ \A i \in (k + 1)..(j - 1) : meLog[i].key # meLog[k].key
            => ~meLog[j].hit)

\* The first call threw; the second, with the same arguments, invoked func
\* again and returned its value.
C20_Witness ==
    /\ Len(meLog) = 2
    /\ meLog[1].got.kind = "throw"
    /\ meLog[2].args = meLog[1].args
    /\ ~meLog[2].hit
    /\ Len(meInvoked) = 2
    /\ meLog[2].got = Returned(ValueOf(meLog[2].args))

\* C21: a wrapper call keeps every entry of the cache with its value (it can
\* only add the entry of its own key); an entry leaves the cache only in a
\* step that is a delete or a clear through memoized.cache; and a call whose
\* key has no entry, as after such a delete or clear, invokes func again.
MemoMutationMade == meMutations' = meMutations + 1
C21_CacheLifetime ==
    /\ [][MemoCallMade
            => /\ \A k \in DOMAIN cache : k \in DOMAIN cache' /\ cache'[k] = cache[k]
               /\ DOMAIN cache' \subseteq DOMAIN cache \cup {TheMemoCall.key}]_vars
    /\ [][~(DOMAIN cache \subseteq DOMAIN cache') => MemoMutationMade /\ ~MemoCallMade]_vars
    /\ [][MemoCallMade /\ TheMemoCall.key \notin DOMAIN cache
            => MemoInvoked /\ TheMemoInvocation.args = TheMemoCall.args]_vars
    /\ [](\A k, j \in 1..Len(meLog) :
            /\ k < j
            /\ meLog[j].key = meLog[k].key
            /\ meLog[j].muts = meLog[k].muts
            /\ meLog[k].got.kind = "return"
            => meLog[j].hit /\ meLog[j].got = meLog[k].got)

\* A stored result was deleted through memoized.cache; the next call with
\* the same arguments invoked func again.
C21_Witness ==
    /\ Len(meLog) = 2
    /\ meMutations = 1
    /\ meLog[1].got.kind = "return"
    /\ meLog[2].args = meLog[1].args
    /\ ~meLog[2].hit
    /\ Len(meInvoked) = 2
    /\ meLog[2].key \in DOMAIN cache

\* ------------------------------------------------------------- retry properties
RetryFailed(k) == reLog[k].out = "err"
AttemptStarts == Len(reLog') = Len(reLog) + 1

\* The attempts a loop `for (i = 0; i <= retries; i++)` can make.
MostAttempts == IF reRetries + 1 > 0 THEN reRetries + 1 ELSE 0

C23_LastErrorWins ==
    rePromise.state = "rejected" /\ reLog # <<>> =>
        /\ \A k \in 1..Len(reLog) : RetryFailed(k)
        /\ Len(reLog) = reRetries + 1
        /\ rePromise.v = Len(reLog)
        /\ reLastError = Len(reLog)

\* With retries = 2 the promise was rejected with the third attempt's error.
C23_Witness ==
    /\ reRetries = 2
    /\ rePromise = [state |-> "rejected", v |-> 3, via |-> "settle"]
    /\ reLastError = 3

\* C24: an attempt that succeeds is the last one: the promise is fulfilled
\* with its value in the task in which it succeeds, every earlier attempt
\* failed, no timer is pending; and after the promise is settled nothing
\* more happens.
C24_SuccessStops ==
    /\ [](\A k \in 1..Len(reLog) :
            reLog[k].out = "ok" =>
                /\ k = Len(reLog)
                /\ rePromise = [state |-> "fulfilled", v |-> k, via |-> "settle"]
                /\ \A j \in 1..(k - 1) : RetryFailed(j)
                /\ rePc = "done"
                /\ reTimer = NoTimer)
    /\ [](rePromise.state = "fulfilled" =>
            reLog # <<>> /\ reLog[Len(reLog)].out = "ok")
    /\ [][rePc = "done" => UNCHANGED reVars]_vars

\* Two attempts failed and the third succeeded, with retries = 2.
C24_Witness ==
    /\ reRetries = 2
    /\ reDelayMs > 0
    /\ Len(reLog) = 3
    /\ rePromise.state = "fulfilled"
    /\ rePromise.v = 3

\* C25: the first attempt starts in the task that calls retry; every later
\* attempt starts when a timer set with delayMs at the failure of the
\* previous attempt fires, so at least delayMs after that failure and with
\* no attempt in flight; a timer is set only when a further attempt follows,
\* so the rejection comes in the task of the final failure.
C25_FixedDelay ==
    /\ [](\A k \in 1..Len(reLog) :
            /\ ~reLog[k].busy
            /\ k = 1 => reLog[k].gap = -1 /\ reLog[k].timer = -1
            /\ k > 1 => /\ reLog[k].timer = reDelayMs
                        /\ reLog[k].gap >= reDelayMs
                        /\ RetryFailed(k - 1))
    /\ [][AttemptStarts => IF reLog = <<>> THEN rePc = "idle"
                           ELSE rePc = "delay" /\ reTimer.left <= 0]_vars
    /\ [](rePc = "delay" => reI < reRetries /\ reTimer.set = reDelayMs)
    /\ [](rePromise.state # "pending" => rePromise.via # "timer")

\* Three attempts, each later one delayMs = 2 after the failure before it.
C25_Witness ==
    /\ reDelayMs = 2
    /\ Len(reLog) = 3
    /\ reLog[2].gap = 2
    /\ reLog[3].gap = 2
    /\ rePromise.state = "rejected"

\* C27: when func throws in the first call, that call throws the error; func
\* is not invoked again; and every later call returns (undefined, the
\* result never assigned) without throwing.
C27_FailedFirstCall ==
    Len(onLog) >= 1 /\ onLog[1].got.kind = "throw" =>
        /\ onLog[1].got = Threw(onLog[1].args)
        /\ Len(onInvoked) = 1
        /\ called
        /\ result = Undefined
        /\ \A k \in 2..Len(onLog) : onLog[k].got = Returned(Undefined)

\* The first call threw; two later calls returned undefined.
C27_Witness ==
    /\ Len(onLog) = 3
    /\ onLog[1].got.kind = "throw"
    /\ onLog[3].got = Returned(Undefined)
    /\ onLog[2].args # onLog[1].args

\* ------------------------------------------------------------- retryImport properties
\* C29: importFn is called at most retries + 1 times, the calls left (n) never
\* fall below zero while the promise is pending, so the promise settles after
\* finitely many calls; every call after the first is made by a timer set
\* with delayMs when the call before it failed; the promise is fulfilled with
\* the value of the first call that succeeds or rejected with the error of
\* the last call.
C29_BoundedImports ==
    /\ Len(riLog) <= riRetries + 1
    /\ riPc \in {"import", "delay"} => riN >= 0
    /\ \A k \in 2..Len(riLog) :
          /\ riLog[k - 1].out = "err"
          /\ riLog[k].timer = riDelayMs
          /\ riLog[k].gap >= riDelayMs
    /\ riPromise.state # "pending" =>
          /\ riPromise.v = Len(riLog)
          /\ riLog[Len(riLog)].out =
                IF riPromise.state = "fulfilled" THEN "ok" ELSE "err"

\* ------------------------------------------------------------- debounce and throttle cancellation
\* C30: once cancel() has returned and no call has been made since, no timer
\* of the debounce wrapper is pending; func is invoked only by a timer
\* callback at or after its due time, and never for a call made before a
\* cancel().
C30_SynchronousCancel ==
    /\ dbCancels > 0 /\ dbBarrier = Len(dbLog) => dbTimers = {}
    /\ \A k \in 1..Len(dbInvoked) :
          /\ dbInvoked[k].late >= 0
          /\ dbInvoked[k].barrier < dbInvoked[k].call

\* ------------------------------------------------------------- isolation properties
\* What wrapper j of kind k keeps in its closure, and its timers in the runtime.
OwnTimers(k, j) == {tm \in isoTimers : tm.kind = k /\ tm.inst = j}
Private(k, j) ==
    CASE k = "debounce" ->
            [timeout |-> isoDbTimeout[Cell(j)], lastRan |-> NoRun,
             cache |-> <<>>, called |-> FALSE, result |-> Undefined,
             queue |-> <<>>, processing |-> FALSE,
             timers |-> OwnTimers(k, j)]
      [] k = "throttle" ->
            [timeout |-> isoThTimeout[Cell(j)], lastRan |-> isoLastRan[Cell(j)],
             cache |-> <<>>, called |-> FALSE, result |-> Undefined,
             queue |-> <<>>, processing |-> FALSE,
             timers |-> OwnTimers(k, j)]
      [] k = "memoize" ->
            [timeout |-> Null, lastRan |-> NoRun,
             cache |-> isoCache[Cell(j)], called |-> FALSE, result |-> Undefined,
             queue |-> <<>>, processing |-> FALSE,
             timers |-> OwnTimers(k, j)]
      [] k = "once" ->
            [timeout |-> Null, lastRan |-> NoRun,
             cache |-> <<>>, called |-> isoCalled[Cell(j)],
             result |-> isoResult[Cell(j)],
             queue |-> <<>>, processing |-> FALSE,
             timers |-> OwnTimers(k, j)]
      [] k = "rateLimit" ->
            [timeout |-> Null, lastRan |-> NoRun,
             cache |-> <<>>, called |-> FALSE, result |-> Undefined,
             queue |-> isoQueue[Cell(j)], processing |-> isoProcessing[Cell(j)],
             timers |-> OwnTimers(k, j)]

\* C26: a task of one wrapper (a call, a cancel, a timer callback, a promise
\* continuation) leaves the timer handle, lastRan, cache, called flag, result,
\* queue, processing flag and pending timers of every other wrapper as they
\* were.
C26_InstanceIsolation ==
    [][\A k \in Kinds, j \in Instances :
          isoActor' # Actor(k, j) => Private(k, j)' = Private(k, j)]_vars

\* Both debounce wrappers were called, then wrapper 1 was cancelled: its
\* handle is null and it has no timer, while the handle of wrapper 2 still
\* names its pending timer.
C26_Witness ==
    /\ isoActor = Actor("debounce", 1)
    /\ isoDbTimeout[Cell(1)] = Null
    /\ isoDbTimeout[Cell(2)] # Null
    /\ \E tm \in OwnTimers("debounce", 2) : tm.id = isoDbTimeout[Cell(2)]
    /\ OwnTimers("debounce", 1) = {}
    /\ isoOps = 3

====
